---------------------------- MODULE Spec2Model ----------------------------
(***************************************************************************)
(* Verification model of the SentinelAi detection-and-mitigation loop.     *)
(*                                                                         *)
(* Components modelled, each from its source file:                         *)
(*   MitigationEngine  (5GNetwork/model/app/mitigation_engine.py)          *)
(*   SDNController     (model/app/sdn_controller.py)                       *)
(*   MitigationManager (model/mitigation/mitigation_manager.py)            *)
(*   NetworkSliceManager (model/app/network_slice_manager.py)              *)
(*   AutonomousSecurityFramework (model/app/autonomous_security_framework.py)*)
(*                                                                         *)
(* Conventions.  Time is in whole seconds (variable now).  Confidences are *)
(* in hundredths (0.9 is 90).  Slice threat levels of the slice manager    *)
(* are in tenths (0.1 is 1).  Every component has a specification of its   *)
(* own (SpecEngine, SpecManager, SpecSlices, SpecFramework) over the same  *)
(* variables; the variables a component does not own stay at their initial *)
(* value under its specification.                                          *)
(***************************************************************************)
EXTENDS Integers, Sequences, FiniteSets, Bags, TLC

VARIABLES
    now,                 \* the wall clock, datetime.now() / time.time(), in seconds
    \* ---- MitigationEngine + SDNController
    active_mitigations,  \* MitigationEngine.active_mitigations: src_ip -> record
    flow_rules,          \* SDNController.flow_rules, as a bag: rule -> how many copies
    blocked_ips,         \* SDNController.blocked_ips
    install_calls,       \* per address, how often install_flow_rule was invoked
    remove_calls,        \* per address, how often the actuator was asked to remove a rule
    verdicts,            \* number of execute_mitigation calls made so far
    me_last,             \* what the last MitigationEngine operation did
    \* ---- MitigationManager
    active_rules,        \* MitigationManager.active_rules: the rules, each with its rule_id
    blacklist,           \* MitigationManager.blacklist
    rate_limits,         \* MitigationManager.rate_limits: ip -> rate, 0 when absent
    iptables_rules,      \* the DROP rules of chain DDOS_MITIGATION: ip -> how many
    manager_calls,       \* number of MitigationManager operations made so far
    \* ---- NetworkSliceManager
    slices,              \* NetworkSliceManager.slices: slice_id -> slice_info
    restoration_checks,  \* the pending schedule_restoration_check tasks: a bag of
                         \* <<slice_id, the instant its sleep ends>>
    monitor_wake,        \* the instant the sleep of autonomous_slice_monitoring ends
    slice_alerts,        \* number of handle_threat_in_slice calls made so far
    \* ---- AutonomousSecurityFramework
    slice_health,        \* AutonomousSecurityFramework.slice_health
    alert_queue,         \* AutonomousSecurityFramework.alert_queue
    slice_restorations,  \* the pending schedule_slice_restoration tasks: a bag of
                         \* <<slice_type, the instant its sleep ends>>
    health_wake,         \* the instant the sleep of network_slice_health_monitor ends
    metrics,             \* metrics['anomalies_detected'] and metrics['slices_healed']
    high_alerts,         \* per slice, the HIGH alerts whose mitigation was applied
    \* ---- the asyncio event loop the slice manager's coroutines run on
    running,             \* the coroutine that holds the event loop, or Idle
    runnable,            \* the coroutines waiting for the event loop
    transitions,         \* the isolate_slice / restore_slice calls entered and
                         \* not yet left: <<coroutine, slice_id, kind>>
    \* ---- the queues of AutonomousSecurityFramework under a flood
    flow_queue_size,     \* flow_queue.qsize()
    alert_queue_size,    \* alert_queue.qsize()
    loop_blocked,        \* the event loop's thread is inside a put that blocks
    turn,                \* the position in the 100 ms cycle of the three loops
    \* ---- FlowCapture
    flows,               \* FlowCapture.flows: flow_key -> flow record, or NoFlow
    created,             \* number of flow records the default factory has made
    producers,           \* where each thread that ingests packets is
    sweeper,             \* where the thread that runs cleanup_old_flows is
    ingested,            \* per flow key, the packets and bytes handed to the capture
    \* ---- MLDetectionEngine
    detection,           \* the call of detect_ddos made: its inputs and its response
    \* ---- the periodic tasks and their flags
    flags,               \* autonomous_mode, healing_active, continuous_monitoring
    tasks,               \* where each periodic task is: running, sleeping or halted
    restoration          \* the pending schedule_slice_restoration task, if any

engineVars == <<active_mitigations, flow_rules, blocked_ips, install_calls,
                remove_calls, verdicts, me_last>>

managerVars == <<active_rules, blacklist, rate_limits, iptables_rules,
                 manager_calls>>

sliceVars == <<slices, restoration_checks, monitor_wake, slice_alerts>>

frameworkVars == <<slice_health, alert_queue, slice_restorations, health_wake,
                   metrics, high_alerts>>

loopVars == <<running, runnable, transitions>>

queueVars == <<flow_queue_size, alert_queue_size, loop_blocked, turn>>

flowVars == <<flows, created, producers, sweeper, ingested>>

scorerVars == <<detection>>

lifecycleVars == <<flags, tasks, restoration>>

\* everything but the clock, and what the operations of each part leave alone
stateVars == <<engineVars, managerVars, sliceVars, frameworkVars, loopVars, queueVars, flowVars,
    scorerVars, lifecycleVars>>

outsideEngine == <<managerVars, sliceVars, frameworkVars, loopVars, queueVars, flowVars,
    scorerVars, lifecycleVars>>

outsideManager == <<engineVars, sliceVars, frameworkVars, loopVars, queueVars, flowVars,
    scorerVars, lifecycleVars>>

outsideSlices == <<engineVars, managerVars, frameworkVars, loopVars, queueVars, flowVars,
    scorerVars, lifecycleVars>>

outsideLoop == <<engineVars, managerVars, sliceVars, frameworkVars, queueVars,
                flowVars, scorerVars, lifecycleVars>>

outsideQueues == <<engineVars, managerVars, sliceVars, frameworkVars, loopVars,
                  flowVars, scorerVars, lifecycleVars>>

outsideFlows == <<engineVars, managerVars, sliceVars, frameworkVars, loopVars,
                 queueVars, scorerVars, lifecycleVars>>

outsideScorer == <<engineVars, managerVars, sliceVars, frameworkVars, loopVars,
                  queueVars, flowVars, lifecycleVars>>

outsideLifecycle == <<engineVars, managerVars, sliceVars, frameworkVars, loopVars,
                     queueVars, flowVars, scorerVars>>

\* the framework calls the engine
outsideFramework == <<managerVars, sliceVars, loopVars, queueVars, flowVars,
    scorerVars, lifecycleVars>>

vars == <<now, stateVars>>

-----------------------------------------------------------------------------
(* Bounds of the model and the inputs it enumerates.                       *)

MaxVerdicts == 2
MaxManagerCalls == 3
MaxSliceAlerts == 2
MaxSliceTime == 2110
MaxAnomalies == 4
MaxFrameworkTime == 630
MaxPackets == 3

Addresses == {"10.0.0.1", "10.0.0.2"}

\* confidences, in hundredths: below every threshold, and each threshold itself
Confidences == {40, 50, 70, 90}

ThreatLevels == {"LOW", "MEDIUM", "HIGH"}

\* flow_info['network_slice'] of the verdicts given to the engine
SliceInputs == {"URLLC"}

\* what one actuator call can do: succeed, return False, or raise
Outcomes == {"ok", "fail", "raise"}

\* the instants at which the clock is observed
Instants == {0, 299, 300, 600, 86500}

-----------------------------------------------------------------------------
(* MitigationEngine                                                        *)

BlockThreshold == 90
RateLimitThreshold == 70
HoneypotThreshold == 50
MitigationDuration == 300
SecondsPerDay == 86400

NoRecord == [timestamp |-> -1]

\* timedelta.seconds of a non-negative difference of two instants: the
\* seconds within the day, the days being a separate field.
TimedeltaSeconds(later, earlier) == (later - earlier) % SecondsPerDay

\* The ladder with its first rung not looking at the threat level.
MitigationStrategyAnyThreat(confidence, threat_level) ==
    IF confidence >= BlockThreshold THEN "BLOCK"
    ELSE IF confidence >= RateLimitThreshold THEN "RATE_LIMIT"
    ELSE IF confidence >= HoneypotThreshold THEN "REDIRECT_HONEYPOT"
    ELSE "NONE"

\* The ladder of execute_mitigation: which per-source action is attempted.
MitigationStrategy(confidence, threat_level) ==
    IF confidence >= BlockThreshold /\ threat_level = "HIGH" THEN "BLOCK"
    ELSE IF confidence >= RateLimitThreshold THEN "RATE_LIMIT"
    ELSE IF confidence >= HoneypotThreshold THEN "REDIRECT_HONEYPOT"
    ELSE "NONE"

\* the flow rule each SDNController method builds
RuleFor(strategy, src_ip) ==
    [action |-> CASE strategy = "BLOCK" -> "drop"
                  [] strategy = "RATE_LIMIT" -> "rate_limit"
                  [] OTHER -> "redirect",
     src_ip |-> src_ip]

FlowRules == {RuleFor(st, ip) : st \in {"BLOCK", "RATE_LIMIT", "REDIRECT_HONEYPOT"},
                                ip \in Addresses}

\* the tag execute_mitigation appends to mitigation_actions on success
ActionTag(strategy) ==
    CASE strategy = "BLOCK" -> "IP_BLOCKED"
      [] strategy = "RATE_LIMIT" -> "RATE_LIMITED"
      [] OTHER -> "REDIRECTED_TO_HONEYPOT"

\* SDNController.install_flow_rule: the rule is kept only when the install
\* succeeded (every _install_* appends on success and returns False otherwise)
InstallFlowRule(rules, rule, ok) ==
    IF ok THEN [rules EXCEPT ![rule] = @ + 1] ELSE rules

\* MitigationEngine.isolate_network_slice: True for the three known slices,
\* and no rule is installed (the body is a placeholder)
EngineIsolateNetworkSlice(slice_type) == slice_type \in {"eMBB", "URLLC", "mMTC"}

\* The actions with the slice isolated only after a per-source action that
\* succeeded.
MitigationActionsIsolateOnSuccess(confidence, threat_level, slice, outcome) ==
    LET strategy == MitigationStrategy(confidence, threat_level)
    IN  IF strategy # "NONE" /\ outcome = "ok"
        THEN <<ActionTag(strategy)>>
             \o (IF threat_level = "HIGH" /\ EngineIsolateNetworkSlice(slice)
                 THEN <<"SLICE_ISOLATED">> ELSE <<>>)
        ELSE <<>>

\* the mitigation_actions execute_mitigation collects; a raise happens in
\* the controller before it does anything and is caught by the method that
\* called it, which returns False
MitigationActions(confidence, threat_level, slice, outcome) ==
    LET strategy == MitigationStrategy(confidence, threat_level)
    IN  (IF strategy # "NONE" /\ outcome = "ok"
         THEN <<ActionTag(strategy)>> ELSE <<>>)
        \o (IF threat_level = "HIGH" /\ EngineIsolateNetworkSlice(slice)
            THEN <<"SLICE_ISOLATED">> ELSE <<>>)

\* execute_mitigation, on the state of the engine and of its controller
MitigationCall(src_ip, confidence, threat_level, slice, outcome) ==
    LET strategy == MitigationStrategy(confidence, threat_level)
        called   == strategy # "NONE"
        reached  == called /\ outcome # "raise"
        success  == called /\ outcome = "ok"
    IN  /\ blocked_ips' = IF strategy = "BLOCK" /\ reached
                          THEN blocked_ips \cup {src_ip} ELSE blocked_ips
        /\ flow_rules' = IF reached
                         THEN InstallFlowRule(flow_rules, RuleFor(strategy, src_ip), success)
                         ELSE flow_rules
        /\ install_calls' = IF reached
                            THEN [install_calls EXCEPT ![src_ip] = @ + 1]
                            ELSE install_calls
        /\ active_mitigations' =
               [active_mitigations EXCEPT ![src_ip] =
                   [timestamp |-> now,
                    actions |-> MitigationActions(confidence, threat_level,
                                                  slice, outcome)]]
        /\ me_last' = [op |-> "execute_mitigation", src_ip |-> src_ip,
                       confidence |-> confidence, threat_level |-> threat_level,
                       attempted |-> IF called THEN {strategy} ELSE {},
                       success |-> success]
        /\ UNCHANGED remove_calls

ExecuteMitigation(src_ip, confidence, threat_level, slice, outcome) ==
    /\ verdicts < MaxVerdicts
    /\ verdicts' = verdicts + 1
    /\ MitigationCall(src_ip, confidence, threat_level, slice, outcome)
    /\ UNCHANGED <<now, outsideEngine>>

\* MitigationEngine.get_active_mitigations: the addresses it reports
GetActiveMitigations ==
    {ip \in Addresses :
        /\ active_mitigations[ip] # NoRecord
        /\ TimedeltaSeconds(now, active_mitigations[ip].timestamp) < MitigationDuration}

\* the addresses cleanup_expired_mitigations selects
ExpiredIps ==
    {ip \in Addresses :
        /\ active_mitigations[ip] # NoRecord
        /\ TimedeltaSeconds(now, active_mitigations[ip].timestamp) >= MitigationDuration}

\* MitigationEngine.cleanup_expired_mitigations: deletes the records. The
\* controller is not called: SDNController has no operation that removes a rule.
CleanupExpiredMitigations ==
    /\ active_mitigations' =
           [ip \in Addresses |->
               IF ip \in ExpiredIps THEN NoRecord ELSE active_mitigations[ip]]
    /\ me_last' = [op |-> "cleanup", expired |-> ExpiredIps]
    /\ UNCHANGED <<now, flow_rules, blocked_ips, install_calls, remove_calls,
                   verdicts, outsideEngine>>

AdvanceClock ==
    /\ \E t \in Instants : t > now /\ now' = t
    /\ UNCHANGED stateVars

-----------------------------------------------------------------------------
(* MitigationManager                                                       *)

BlockDuration == 3600
RateLimit == 1000
MitigationThreshold == 70
HighConfidence == 90

\* the instants at which the manager's clock is observed
ManagerInstants == {0, 1, 3600, 3601}

\* flow['slice_id'] values given to handle_attack
SliceIds == {"high_priority", "low_priority", "default"}

\* confidences given to handle_attack, in hundredths
ManagerConfidences == {60, 70, 80, 95}

\* what one iptables command can do: exit 0, or CalledProcessError
CommandOutcomes == {"ok", "fail"}

\* DEFAULT_CONFIG['slice_config'], and the 'default' entry for unknown ids
SlicePriority(slice_id) ==
    CASE slice_id = "high_priority" -> 1
      [] slice_id = "medium_priority" -> 2
      [] slice_id = "low_priority" -> 3
      [] OTHER -> 2

\* rule_id = f"{prefix}_{ip}_{int(time.time())}"
RuleId(r) == <<r.type, r.ip, r.added_at>>

\* active_rules[rule_id] = rule: a rule with the same id is replaced
PutRule(rules, r) == {x \in rules : RuleId(x) # RuleId(r)} \cup {r}

\* MitigationManager.block_ip with the default duration
BlockIp(ip, outcome) ==
    /\ blacklist' = blacklist \cup {ip}
    /\ IF outcome = "ok"
       THEN /\ iptables_rules' = [iptables_rules EXCEPT ![ip] = @ + 1]
            /\ active_rules' = PutRule(active_rules,
                   [type |-> "block", ip |-> ip, added_at |-> now,
                    remove_at |-> now + BlockDuration])
       ELSE UNCHANGED <<iptables_rules, active_rules>>
    /\ UNCHANGED rate_limits

\* MitigationManager.rate_limit: no tc command is run, the rule is stored
\* without a remove_at
RateLimitIp(ip, rate) ==
    /\ rate_limits' = [rate_limits EXCEPT ![ip] = rate]
    /\ active_rules' = PutRule(active_rules,
           [type |-> "rate_limit", ip |-> ip, added_at |-> now, rate |-> rate])
    /\ UNCHANGED <<blacklist, iptables_rules>>

\* MitigationManager.handle_attack
HandleAttack(ip, slice_id, confidence, outcome) ==
    /\ manager_calls < MaxManagerCalls
    /\ manager_calls' = manager_calls + 1
    /\ IF confidence < MitigationThreshold
       THEN UNCHANGED <<active_rules, blacklist, rate_limits, iptables_rules>>
       ELSE IF confidence > HighConfidence \/ SlicePriority(slice_id) = 1
       THEN BlockIp(ip, outcome)
       ELSE IF confidence > MitigationThreshold \/ SlicePriority(slice_id) = 2
       THEN RateLimitIp(ip, RateLimit \div 2)
       ELSE RateLimitIp(ip, RateLimit)
    /\ UNCHANGED <<now, outsideManager>>

\* the effect of one remove_mitigation(rule_id) on (rules, blacklist,
\* rate_limits, iptables): iptables -D fails when the command fails or the
\* chain holds no such rule, and then nothing changes
RemoveOne(st, r, outcome) ==
    IF r \notin st.rules THEN st
    ELSE IF r.type = "block"
    THEN IF outcome = "ok" /\ st.iptables[r.ip] > 0
         THEN [rules |-> st.rules \ {r},
               blacklist |-> st.blacklist \ {r.ip},
               rate_limits |-> st.rate_limits,
               iptables |-> [st.iptables EXCEPT ![r.ip] = @ - 1]]
         ELSE st
    ELSE [st EXCEPT !.rules = @ \ {r}, !.rate_limits[r.ip] = 0]

ManagerState ==
    [rules |-> active_rules, blacklist |-> blacklist,
     rate_limits |-> rate_limits, iptables |-> iptables_rules]

SetManagerState(st) ==
    /\ active_rules' = st.rules
    /\ blacklist' = st.blacklist
    /\ rate_limits' = st.rate_limits
    /\ iptables_rules' = st.iptables

\* MitigationManager.remove_mitigation
RemoveMitigation(r, outcome) ==
    /\ manager_calls < MaxManagerCalls
    /\ manager_calls' = manager_calls + 1
    /\ r \in active_rules
    /\ SetManagerState(RemoveOne(ManagerState, r, outcome))
    /\ UNCHANGED <<now, outsideManager>>

\* the rules cleanup_expired_rules selects
ExpiredRules == {r \in active_rules : r.type = "block" /\ r.remove_at < now}

RECURSIVE RemoveAll(_, _, _)
RemoveAll(st, todo, outcomes) ==
    IF todo = {} THEN st
    ELSE LET r == CHOOSE x \in todo : TRUE
         IN  RemoveAll(RemoveOne(st, r, outcomes[r]), todo \ {r}, outcomes)

\* MitigationManager.cleanup_expired_rules: remove_mitigation for every rule
\* whose remove_at is in the past, each with an outcome of its own
CleanupExpiredRules ==
    /\ manager_calls < MaxManagerCalls
    /\ manager_calls' = manager_calls + 1
    /\ \E outcomes \in [ExpiredRules -> CommandOutcomes] :
           SetManagerState(RemoveAll(ManagerState, ExpiredRules, outcomes))
    /\ UNCHANGED <<now, outsideManager>>

ManagerAdvanceClock ==
    /\ \E t \in ManagerInstants : t > now /\ now' = t
    /\ UNCHANGED stateVars

-----------------------------------------------------------------------------
(* NetworkSliceManager                                                     *)
(*                                                                         *)
(* The manager runs on one asyncio event loop: a coroutine runs without    *)
(* interruption up to its next asyncio.sleep, so every handler below is one *)
(* step.  A sleeping task runs when its sleep ends: the clock does not     *)
(* pass the end of a sleep before the task has run.                        *)
(*                                                                         *)
(* threat_level is a float.  It is kept as [t, e]: t is the value in       *)
(* tenths, and e is the sign of the rounding error the repeated            *)
(* subtraction of 0.1 has left, which decides a comparison with a whole    *)
(* number when t is a multiple of ten.  Which sign a subtraction leaves    *)
(* depends on the exact binary value, so the model leaves it open.         *)

Slices == {"eMBB", "URLLC"}

IsolationThreshold == 30
RestorationDelay == 300
MaxIsolationTime == 1800
ThreatDecayRate == 1
RestoreBelow == 10
MonitorPeriod == 10

\* threat_info['severity'] of the alerts, in whole units
Severities == {1, 2, 3, 20}

\* threat_info['src_ip'] of the alerts
AlertSources == {"10.0.0.1"}

\* the instants at which alerts arrive
AlertInstants == {0, 300, 350}

NeverIsolated == -1

ErrorSigns == {-1, 0, 1}

\* the error sign matters only at a whole number; zero is never undershot,
\* because the decay is max(0, ...)
Threat(t, e) ==
    [t |-> t,
     e |-> IF t = 0 THEN (IF e > 0 THEN 1 ELSE 0)
           ELSE IF t % 10 = 0 THEN e ELSE 0]

\* threat_level >= k, threat_level < k and threat_level > 0, for k in tenths
ThreatAtLeast(th, k) == th.t > k \/ (th.t = k /\ th.e >= 0)
ThreatBelow(th, k) == ~ThreatAtLeast(th, k)
ThreatPositive(th) == th.t > 0 \/ th.e > 0

\* threat_level += severity: adding a whole number keeps the error or
\* rounds it away
ThreatPlus(th, severity, e) ==
    Threat(th.t + 10 * severity, IF e = 0 THEN 0 ELSE th.e)

\* The decay without its floor of zero.
ThreatDecayUnbounded(th, e) == [t |-> th.t - ThreatDecayRate, e |-> e]

\* max(0, threat_level - threat_decay_rate)
ThreatDecay(th, e) ==
    IF th.t >= ThreatDecayRate THEN Threat(th.t - ThreatDecayRate, e)
    ELSE Threat(0, 0)

\* isolate_slice: two isolation rules are installed, their results are only
\* logged, the status and the isolation time are set and a restoration
\* check is scheduled (spawned counts the tasks created)
IsolateSlice(c, ok) ==
    [info |-> [c.info EXCEPT !.current_status = "isolated",
                             !.isolation_time = now,
                             !.rules_ok = ok,
                             !.isolation_calls = @ + 2],
     spawned |-> c.spawned + 1]

\* restore_slice: one restoration rule is installed, the status, the
\* threat level and the isolated addresses are reset
RestoreSlice(c) ==
    [info |-> [c.info EXCEPT !.current_status = "active",
                             !.threat_level = Threat(0, 0),
                             !.isolated_ips = {},
                             !.restoration_calls = @ + 1],
     spawned |-> c.spawned]

\* slice_info.get('isolation_time', datetime.now()), and .seconds of its age
IsolationAge(info) ==
    IF info.isolation_time = NeverIsolated THEN 0
    ELSE TimedeltaSeconds(now, info.isolation_time)

\* monitor_slice_health
MonitorSliceHealth(c, ok, e) ==
    LET c1 == IF /\ ThreatAtLeast(c.info.threat_level, IsolationThreshold)
                 /\ c.info.current_status # "isolated"
              THEN IsolateSlice(c, ok) ELSE c
    IN  IF ThreatPositive(c1.info.threat_level)
        THEN [c1 EXCEPT !.info.threat_level = ThreatDecay(@, e)]
        ELSE c1

\* check_slice_restoration
CheckSliceRestoration(c) ==
    IF /\ c.info.current_status = "isolated"
       /\ ThreatBelow(c.info.threat_level, RestoreBelow)
       /\ IsolationAge(c.info) >= RestorationDelay
    THEN RestoreSlice(c) ELSE c

\* the tasks of the bag with one copy of <<slice_id, at>> added per spawn
\* the choices that make no difference to a step are fixed: the result of
\* an install that is not made, the error sign away from a whole number
SignMatters(th, e) == Threat(th.t, e).e = e

WithChecks(bag, spawned, at) ==
    bag (+) [x \in {<<s, at>> : s \in {z \in Slices : spawned[z] > 0}}
                |-> spawned[x[1]]]

\* monitor_slice_health then check_slice_restoration for one slice: the
\* outcomes over the results of the installs and the rounding of the decay
MonitorOutcomes(s) ==
    LET c0 == [info |-> slices[s], spawned |-> 0]
        isolates == /\ ThreatAtLeast(slices[s].threat_level, IsolationThreshold)
                    /\ slices[s].current_status # "isolated"
        decayed  == ThreatDecay(slices[s].threat_level, 0)
    IN  {CheckSliceRestoration(MonitorSliceHealth(c0, ok, e)) :
            ok \in (IF isolates THEN BOOLEAN ELSE {TRUE}),
            e \in {x \in ErrorSigns : x = 0 \/ SignMatters(decayed, x)}}

\* one iteration of autonomous_slice_monitoring: every slice is monitored
\* and checked for restoration, then the loop sleeps
MonitorIteration ==
    /\ monitor_wake = now
    /\ \E after \in {f \in [Slices -> UNION {MonitorOutcomes(s) : s \in Slices}] :
                        \A s \in Slices : f[s] \in MonitorOutcomes(s)} :
          /\ slices' = [s \in Slices |-> after[s].info]
          /\ restoration_checks' =
                 WithChecks(restoration_checks,
                            [s \in Slices |-> after[s].spawned],
                            now + RestorationDelay)
    /\ monitor_wake' = now + MonitorPeriod
    /\ UNCHANGED <<now, slice_alerts, outsideSlices>>

\* handle_threat_in_slice
HandleThreatInSlice(slice_id, severity, src_ip, ok, e) ==
    /\ slice_alerts < MaxSliceAlerts
    /\ now \in AlertInstants
    /\ slice_alerts' = slice_alerts + 1
    /\ LET c0 == [info |-> [slices[slice_id] EXCEPT
                              !.threat_level = ThreatPlus(@, severity, e),
                              !.isolated_ips = @ \cup {src_ip}],
                  spawned |-> 0]
           c1 == IF ThreatAtLeast(c0.info.threat_level, IsolationThreshold)
                 THEN IsolateSlice(c0, ok) ELSE c0
       IN  /\ ok \/ ThreatAtLeast(c0.info.threat_level, IsolationThreshold)
           /\ e = 0 \/ slices[slice_id].threat_level.e # 0
           /\ slices' = [slices EXCEPT ![slice_id] = c1.info]
           /\ restoration_checks' =
                  WithChecks(restoration_checks,
                             [s \in Slices |-> IF s = slice_id THEN c1.spawned ELSE 0],
                             now + RestorationDelay)
    /\ UNCHANGED <<now, monitor_wake, outsideSlices>>

\* schedule_restoration_check, from the end of its sleep
RestorationCheck(slice_id) ==
    /\ BagIn(<<slice_id, now>>, restoration_checks)
    /\ LET info == slices[slice_id]
           rest == restoration_checks (-) SetToBag({<<slice_id, now>>})
           c0   == [info |-> info, spawned |-> 0]
       IN  IF /\ info.current_status = "isolated"
              /\ ThreatBelow(info.threat_level, RestoreBelow)
           THEN /\ slices' = [slices EXCEPT ![slice_id] = RestoreSlice(c0).info]
                /\ restoration_checks' = rest
           ELSE IF IsolationAge(info) > MaxIsolationTime
           THEN /\ slices' = [slices EXCEPT ![slice_id] = RestoreSlice(c0).info]
                /\ restoration_checks' = rest
           ELSE /\ slices' = slices
                /\ restoration_checks' =
                       rest (+) SetToBag({<<slice_id, now + RestorationDelay>>})
    /\ UNCHANGED <<now, monitor_wake, slice_alerts, outsideSlices>>

\* the ends of the sleeps in progress
SliceWakes == {monitor_wake} \cup {x[2] : x \in BagToSet(restoration_checks)}

\* time passes up to the end of the next sleep
SliceAdvanceClock ==
    /\ \A w \in SliceWakes : w > now
    /\ \E t \in SliceWakes :
          /\ \A w \in SliceWakes : t <= w
          /\ t <= MaxSliceTime
          /\ now' = t
    /\ UNCHANGED stateVars

-----------------------------------------------------------------------------
(* The coroutines of NetworkSliceManager on the event loop                 *)
(*                                                                         *)
(* The same handlers as above, at the grain of the event loop: which       *)
(* coroutine holds the loop and which wait for it.  A coroutine keeps the  *)
(* loop until it sleeps or ends.  isolate_slice and restore_slice await    *)
(* nothing that suspends, and SDNController.install_flow_rule is an        *)
(* ordinary blocking call (requests.put with a timeout of 5 seconds), so   *)
(* the loop is held across a whole transition.  What a handler decides     *)
(* depends on the threat level, which is left open here.                   *)

Idle == [task |-> <<"none">>, todo |-> <<>>, installs_left |-> 0, entered |-> FALSE]

\* the order in which autonomous_slice_monitoring visits the slices
SliceOrder == <<"eMBB", "URLLC">>

\* handle_threat_in_slice and schedule_restoration_check for each slice, and
\* the monitoring loop
Coroutines ==
    {<<"handle_threat_in_slice", s>> : s \in Slices}
        \cup {<<"schedule_restoration_check", s>> : s \in Slices}
        \cup {<<"autonomous_slice_monitoring">>}

\* the install_flow_rule calls a transition makes
InstallsOf(kind) == IF kind = "isolate" THEN 2 ELSE 1

\* the transitions one run of a coroutine may make, in order
RECURSIVE MonitoringPlans(_)
MonitoringPlans(i) ==
    IF i > Len(SliceOrder) THEN {<<>>}
    ELSE LET rest == MonitoringPlans(i + 1)
         IN  rest \cup {<<<<SliceOrder[i], k>>>> \o r :
                           k \in {"isolate", "restore"}, r \in rest}

PlansOf(task) ==
    IF task[1] = "handle_threat_in_slice"
    THEN {<<>>, <<<<task[2], "isolate">>>>}
    ELSE IF task[1] = "schedule_restoration_check"
    THEN {<<>>, <<<<task[2], "restore">>>>}
    ELSE MonitoringPlans(1)

\* a coroutine becomes ready: an alert is handed over, a sleep ends
BecomeRunnable(task) ==
    /\ task \notin runnable
    /\ running.task # task
    /\ runnable' = runnable \cup {task}
    /\ UNCHANGED <<now, running, transitions, outsideLoop>>

\* the event loop, free, resumes a waiting coroutine
Resume(task) ==
    /\ running = Idle
    /\ task \in runnable
    /\ runnable' = runnable \ {task}
    /\ \E plan \in PlansOf(task) :
          running' = [task |-> task, todo |-> plan, installs_left |-> 0,
                      entered |-> FALSE]
    /\ UNCHANGED <<now, transitions, outsideLoop>>

\* the running coroutine enters isolate_slice or restore_slice
EnterTransition ==
    /\ running # Idle
    /\ ~running.entered
    /\ running.todo # <<>>
    /\ LET tr == Head(running.todo)
       IN  /\ transitions' = transitions \cup {<<running.task, tr[1], tr[2]>>}
           /\ running' = [running EXCEPT !.entered = TRUE,
                                         !.installs_left = InstallsOf(tr[2])]
    /\ UNCHANGED <<now, runnable, outsideLoop>>

\* one install_flow_rule call of the transition returns
InstallReturns ==
    /\ running.entered
    /\ running.installs_left > 0
    /\ running' = [running EXCEPT !.installs_left = @ - 1]
    /\ UNCHANGED <<now, runnable, transitions, outsideLoop>>

\* the running coroutine leaves isolate_slice or restore_slice
LeaveTransition ==
    /\ running.entered
    /\ running.installs_left = 0
    /\ LET tr == Head(running.todo)
       IN  /\ transitions' = transitions \ {<<running.task, tr[1], tr[2]>>}
           /\ running' = [running EXCEPT !.entered = FALSE,
                                         !.todo = Tail(@)]
    /\ UNCHANGED <<now, runnable, outsideLoop>>

\* the running coroutine sleeps or ends, and gives the loop back
Suspend ==
    /\ running # Idle
    /\ ~running.entered
    /\ running.todo = <<>>
    /\ running' = Idle
    /\ UNCHANGED <<now, runnable, transitions, outsideLoop>>

-----------------------------------------------------------------------------
(* AutonomousSecurityFramework                                             *)
(*                                                                         *)
(* Its tasks run on one asyncio event loop, so each runs without           *)
(* interruption from one sleep to the next.  The mitigation task polls the *)
(* alert queue every 50 ms: the clock, which counts whole seconds, does    *)
(* not advance while an alert is waiting.                                  *)

AlertQueueSize == 1000
DegradedAbove == 2
CriticalAbove == 5
QuietSeconds == 300
HealthPeriod == 30
SliceRestorationDelay == 300
RestoreThreshold == 2

\* what detect_ddos returns for the flows
Detections ==
    {[prediction |-> "ddos", threat_level |-> "HIGH", confidence |-> 90],
     [prediction |-> "suspicious", threat_level |-> "MEDIUM", confidence |-> 50],
     [prediction |-> "suspicious", threat_level |-> "MEDIUM", confidence |-> 40],
     [prediction |-> "normal", threat_level |-> "LOW", confidence |-> 40]}

\* flow['src_ip'] of the flows
FlowSources == {"10.0.0.1"}

\* the results of the install the engine asks the controller for
InstallOutcomes == {"ok", "fail"}

\* the instants at which flows are analysed
DetectionInstants == {0, 300}

\* one pass of real_time_anomaly_detection over a flow
DetectAnomaly(src_ip, slice_type, detection_result) ==
    /\ now \in DetectionInstants
    /\ metrics.anomalies_detected < MaxAnomalies
    /\ Len(alert_queue) < AlertQueueSize
    /\ IF detection_result.prediction \in {"ddos", "suspicious"}
       THEN /\ metrics' = [metrics EXCEPT !.anomalies_detected = @ + 1]
            /\ alert_queue' = Append(alert_queue,
                                     [src_ip |-> src_ip,
                                      network_slice |-> slice_type,
                                      threat_level |-> detection_result.threat_level,
                                      confidence |-> detection_result.confidence])
       ELSE UNCHANGED <<metrics, alert_queue>>
    /\ UNCHANGED <<now, slice_health, slice_restorations, health_wake, high_alerts,
                   engineVars, outsideFramework>>

\* one pass of autonomous_threat_mitigation over an alert, with
\* isolate_network_slice, which it awaits
ThreatMitigation(outcome) ==
    /\ alert_queue # <<>>
    /\ LET alert    == Head(alert_queue)
           sl       == alert.network_slice
           applied  == MitigationActions(alert.confidence, alert.threat_level,
                                         sl, outcome) # <<>>
           isolates == /\ applied
                       /\ alert.threat_level = "HIGH"
                       /\ EngineIsolateNetworkSlice(sl)
           h1 == IF applied
                 THEN [slice_health[sl] EXCEPT !.threat_level = @ + 1,
                                               !.last_check = now]
                 ELSE slice_health[sl]
           h2 == IF isolates THEN [h1 EXCEPT !.status = "isolated"] ELSE h1
       IN  /\ MitigationCall(alert.src_ip, alert.confidence, alert.threat_level,
                             sl, outcome)
           /\ alert_queue' = Tail(alert_queue)
           /\ slice_health' = [slice_health EXCEPT ![sl] = h2]
           /\ slice_restorations' =
                  IF isolates
                  THEN slice_restorations
                       (+) SetToBag({<<sl, now + SliceRestorationDelay>>})
                  ELSE slice_restorations
           /\ high_alerts' = IF isolates
                             THEN [high_alerts EXCEPT ![sl] = @ + 1]
                             ELSE high_alerts
    /\ UNCHANGED <<now, verdicts, health_wake, metrics, outsideFramework>>

\* the body of the loop of network_slice_health_monitor for one slice
SliceStatus(health) ==
    IF health.threat_level > CriticalAbove
    THEN [health EXCEPT !.status = "critical"]
    ELSE IF health.threat_level > DegradedAbove
    THEN [health EXCEPT !.status = "degraded"]
    ELSE IF TimedeltaSeconds(now, health.last_check) > QuietSeconds
    THEN [health EXCEPT !.status = "healthy",
                        !.threat_level = IF @ > 1 THEN @ - 1 ELSE 0]
    ELSE health

\* one iteration of network_slice_health_monitor
HealthMonitorIteration ==
    /\ health_wake = now
    /\ slice_health' = [s \in Slices |-> SliceStatus(slice_health[s])]
    /\ health_wake' = now + HealthPeriod
    /\ UNCHANGED <<now, alert_queue, slice_restorations, metrics, high_alerts,
                   engineVars, outsideFramework>>

\* schedule_slice_restoration, from the end of its sleep
SliceRestoration(slice_type) ==
    /\ BagIn(<<slice_type, now>>, slice_restorations)
    /\ LET rest == slice_restorations (-) SetToBag({<<slice_type, now>>})
       IN  IF slice_health[slice_type].threat_level < RestoreThreshold
           THEN /\ slice_health' = [slice_health EXCEPT
                                       ![slice_type].status = "healthy",
                                       ![slice_type].threat_level = 0]
                /\ metrics' = [metrics EXCEPT !.slices_healed = @ + 1]
                /\ slice_restorations' = rest
           ELSE /\ slice_restorations' =
                       rest (+) SetToBag({<<slice_type, now + SliceRestorationDelay>>})
                /\ UNCHANGED <<slice_health, metrics>>
    /\ UNCHANGED <<now, alert_queue, health_wake, high_alerts,
                   engineVars, outsideFramework>>

\* the ends of the sleeps in progress
FrameworkWakes == {health_wake} \cup {x[2] : x \in BagToSet(slice_restorations)}

\* time passes up to the end of the next sleep
FrameworkAdvanceClock ==
    /\ alert_queue = <<>>
    /\ \A w \in FrameworkWakes : w > now
    /\ \E t \in FrameworkWakes :
          /\ \A w \in FrameworkWakes : t <= w
          /\ t <= MaxFrameworkTime
          /\ now' = t
    /\ UNCHANGED stateVars

-----------------------------------------------------------------------------
(* The queues of AutonomousSecurityFramework under a flood                 *)
(*                                                                         *)
(* The producers and consumers of the two queues, at the grain of one pass *)
(* of each loop and with the queues reduced to their sizes.  The thread of *)
(* continuous_flow_monitoring makes a pass every 100 ms, the detection     *)
(* task every 10 ms and the mitigation task every 50 ms: a cycle is one    *)
(* pass of the thread, then twice five detection passes and a mitigation   *)
(* pass.  During a flood every pass of the thread brings more flows than   *)
(* the flow queue holds.                                                   *)

FlowQueueSize == 10000
CycleTurns == 13
DetectionsPerMitigation == 5

\* the flows get_flow_statistics returns in one pass
FlowBatches == {10001}

\* detection_result['prediction'] for a flow
Predictions == {"ddos", "suspicious", "normal"}

MitigationTurn(t) == t > 0 /\ t % (DetectionsPerMitigation + 1) = 0
DetectionTurn(t) == t > 0 /\ ~MitigationTurn(t)
NextTurn(t) == (t + 1) % CycleTurns

\* one pass of flow_processor: each flow is put unless the queue is full
FlowProcessorPass(batch) ==
    /\ turn = 0
    /\ flow_queue_size' = IF flow_queue_size + batch > FlowQueueSize
                          THEN FlowQueueSize ELSE flow_queue_size + batch
    /\ turn' = IF loop_blocked THEN 0 ELSE NextTurn(turn)
    /\ UNCHANGED <<now, alert_queue_size, loop_blocked, outsideQueues>>

\* one pass of real_time_anomaly_detection: alert_queue.put waits for a free
\* slot, on the thread of the event loop
AnomalyDetectionPass(prediction) ==
    /\ ~loop_blocked
    /\ DetectionTurn(turn)
    /\ IF flow_queue_size = 0
       THEN UNCHANGED <<flow_queue_size, alert_queue_size, loop_blocked>>
       ELSE /\ flow_queue_size' = flow_queue_size - 1
            /\ IF prediction \notin {"ddos", "suspicious"}
               THEN UNCHANGED <<alert_queue_size, loop_blocked>>
               ELSE IF alert_queue_size < AlertQueueSize
               THEN /\ alert_queue_size' = alert_queue_size + 1
                    /\ UNCHANGED loop_blocked
               ELSE /\ loop_blocked' = TRUE
                    /\ UNCHANGED alert_queue_size
    /\ turn' = IF loop_blocked' THEN 0 ELSE NextTurn(turn)
    /\ UNCHANGED <<now, outsideQueues>>

\* one pass of autonomous_threat_mitigation
ThreatMitigationPass ==
    /\ ~loop_blocked
    /\ MitigationTurn(turn)
    /\ alert_queue_size' = IF alert_queue_size > 0
                           THEN alert_queue_size - 1 ELSE 0
    /\ turn' = NextTurn(turn)
    /\ UNCHANGED <<now, flow_queue_size, loop_blocked, outsideQueues>>

-----------------------------------------------------------------------------
(* FlowCapture                                                             *)
(*                                                                         *)
(* packet_callback / generate_simulated_packet run on the threads that     *)
(* capture, cleanup_old_flows on whichever thread calls it.  FlowCapture   *)
(* has no lock, so the threads interleave between the steps below: the     *)
(* lookup that finds no record and runs the default factory, the load and  *)
(* the store of each "+=", the scan and the deletions of the sweep.  A     *)
(* thread that has loaded a record keeps that record: if the table has     *)
(* got another record for the key since, its store is lost.                *)

Producers == {"capture-1", "capture-2"}
FlowKeys == {"10.0.0.1->192.168.1.100"}
PacketSizes == {64, 1500}
FlowInstants == {0, 600, 601}
IdleTimeout == 600
None == -1
NoFlow == [id |-> 0]
IdleThread == [at |-> "idle"]

\* the record the default factory of self.flows makes
DefaultFlow(id) ==
    [id |-> id, packets |-> 0, bytes |-> 0, start_time |-> None, last_seen |-> None]

\* extract_flow_features: the two totals, or None for a flow without packets
ExtractFlowFeatures(flow_data) ==
    IF flow_data.packets = 0 THEN [total_packets |-> None, total_bytes |-> None]
    ELSE [total_packets |-> flow_data.packets, total_bytes |-> flow_data.bytes]

\* a packet reaches a capturing thread
ReceivePacket(p, flow_key, packet_size) ==
    /\ producers[p] = IdleThread
    /\ ingested[flow_key].packets
          + Cardinality({q \in Producers : producers[q] # IdleThread}) < MaxPackets
    /\ producers' = [producers EXCEPT ![p] =
                        [at |-> "lookup", flow_key |-> flow_key,
                         packet_size |-> packet_size, id |-> 0, loaded |-> 0]]
    /\ UNCHANGED <<now, flows, created, sweeper, ingested, outsideFlows>>

\* self.flows[flow_key]['start_time'] is None: a key that is missing sends
\* the thread into the default factory
LookupFlow(p) ==
    /\ producers[p].at = "lookup"
    /\ LET k == producers[p].flow_key
       IN  IF flows[k] = NoFlow
           THEN /\ producers' = [producers EXCEPT ![p].at = "factory"]
                /\ UNCHANGED flows
           ELSE /\ producers' = [producers EXCEPT ![p].at = "load_packets"]
                /\ flows' = IF flows[k].start_time = None
                            THEN [flows EXCEPT ![k].start_time = now]
                            ELSE flows
    /\ UNCHANGED <<now, created, sweeper, ingested, outsideFlows>>

\* the default factory returns: its record is stored under the key,
\* whatever is there by now, and the flow is initialised
FactoryReturns(p) ==
    /\ producers[p].at = "factory"
    /\ created' = created + 1
    /\ flows' = [flows EXCEPT ![producers[p].flow_key] =
                    [DefaultFlow(created + 1) EXCEPT !.start_time = now]]
    /\ producers' = [producers EXCEPT ![p].at = "load_packets"]
    /\ UNCHANGED <<now, sweeper, ingested, outsideFlows>>

\* the record a statement finds under the key: a missing key makes one
FlowAt(k) == IF flows[k] = NoFlow THEN DefaultFlow(created + 1) ELSE flows[k]
CreatedAt(k) == IF flows[k] = NoFlow THEN created + 1 ELSE created

\* the load of self.flows[flow_key][field] += ...
LoadField(p, at, field, next) ==
    /\ producers[p].at = at
    /\ LET k == producers[p].flow_key
       IN  /\ flows' = [flows EXCEPT ![k] = FlowAt(k)]
           /\ created' = CreatedAt(k)
           /\ producers' = [producers EXCEPT ![p].at = next,
                                             ![p].id = FlowAt(k).id,
                                             ![p].loaded = FlowAt(k)[field]]
    /\ UNCHANGED <<now, sweeper, ingested, outsideFlows>>

LoadPackets(p) == LoadField(p, "load_packets", "packets", "store_packets")

LoadBytes(p) == LoadField(p, "load_bytes", "bytes", "store_bytes")

\* the store of self.flows[flow_key]['packets'] += 1
StorePackets(p) ==
    /\ producers[p].at = "store_packets"
    /\ LET k == producers[p].flow_key
       IN  flows' = IF flows[k].id = producers[p].id
                    THEN [flows EXCEPT ![k].packets = producers[p].loaded + 1]
                    ELSE flows
    /\ producers' = [producers EXCEPT ![p].at = "load_bytes"]
    /\ UNCHANGED <<now, created, sweeper, ingested, outsideFlows>>

\* the store of self.flows[flow_key]['bytes'] += packet_size, then
\* self.flows[flow_key]['last_seen'] = current_time
StoreBytes(p) ==
    /\ producers[p].at = "store_bytes"
    /\ LET k == producers[p].flow_key
           stored == IF flows[k].id = producers[p].id
                     THEN [flows[k] EXCEPT
                             !.bytes = producers[p].loaded + producers[p].packet_size]
                     ELSE flows[k]
           found == IF stored = NoFlow THEN DefaultFlow(created + 1) ELSE stored
       IN  /\ flows' = [flows EXCEPT ![k] = [found EXCEPT !.last_seen = now]]
           /\ created' = IF stored = NoFlow THEN created + 1 ELSE created
           /\ ingested' = [ingested EXCEPT
                              ![k].packets = @ + 1,
                              ![k].bytes = @ + producers[p].packet_size]
    /\ producers' = [producers EXCEPT ![p] = IdleThread]
    /\ UNCHANGED <<now, sweeper, outsideFlows>>

\* cleanup_old_flows, first loop: the keys whose last_seen is before the cutoff
SweepScan ==
    /\ sweeper = IdleThread
    /\ sweeper' = [at |-> "delete",
                   flows_to_remove |->
                       {k \in FlowKeys :
                           /\ flows[k] # NoFlow
                           /\ flows[k].last_seen # None
                           /\ flows[k].last_seen < now - IdleTimeout}]
    /\ UNCHANGED <<now, flows, created, producers, ingested, outsideFlows>>

\* cleanup_old_flows, second loop: del self.flows[flow_key] for each of them
SweepDelete ==
    /\ sweeper.at = "delete"
    /\ flows' = [k \in FlowKeys |->
                    IF k \in sweeper.flows_to_remove THEN NoFlow ELSE flows[k]]
    /\ sweeper' = IdleThread
    /\ UNCHANGED <<now, created, producers, ingested, outsideFlows>>

FlowAdvanceClock ==
    /\ \E t \in FlowInstants : t > now /\ now' = t
    /\ UNCHANGED stateVars

-----------------------------------------------------------------------------
(* MLDetectionEngine                                                       *)
(*                                                                         *)
(* What the trained models answer for a flow is an input: each model of    *)
(* self.models either gives a prediction with a confidence or gives none   *)
(* (it is not loaded, or its predict raises), and so does the isolation    *)
(* forest.  Confidences and weights are in hundredths, the scores of the   *)
(* ensemble are exact fractions [num, den].                                *)

ModelNames == {"random_forest", "svm", "knn"}
ModelConfidences == {60, 100}
NoPrediction == [prediction |-> "none", confidence |-> 0]
ModelOutcomes ==
    {NoPrediction} \cup
    [prediction : {"ddos", "normal"}, confidence : ModelConfidences]
ForestOutcomes == {"anomaly", "normal", "none"}
Failures == {"none", "preprocessing_error", "detection_error"}
FlowFeatures ==
    [packets_per_second : {1000, 1001}, bytes_per_second : {100000, 1500000},
     std_packet_size : {0, 501}, unique_dst_ports : {1, 50}]
NoDetection == [failure |-> "not called"]

\* get_model_weight, in hundredths
GetModelWeight(model_name) ==
    CASE model_name = "random_forest" -> 20
      [] model_name = "gradient_boosting" -> 18
      [] model_name = "xgboost" -> 17
      [] model_name = "lightgbm" -> 15
      [] model_name = "svm" -> 12
      [] model_name = "logistic_regression" -> 10
      [] model_name = "knn" -> 5
      [] model_name = "lstm" -> 3
      [] OTHER -> 10

Ratio(num, den) == [num |-> num, den |-> den]
Greater(x, y) == x.num * y.den > y.num * x.den
MaxRatio(x, y) == IF Greater(y, x) THEN y ELSE x
MinRatio(x, y) == IF Greater(x, y) THEN y ELSE x
OneMinus(x) == Ratio(x.den - x.num, x.den)
\* a fraction as the engine's thresholds see it, in whole hundredths
Hundredths(x) == (x.num * 100) \div x.den

RECURSIVE SumOver(_, _)
SumOver(f, S) ==
    IF S = {} THEN 0
    ELSE LET x == CHOOSE y \in S : TRUE IN f[x] + SumOver(f, S \ {x})

\* the models that answered
Answered(outcomes) == {m \in ModelNames : outcomes[m] # NoPrediction}

\* the entry of prediction_scores for a model, in 1/10000
PredictionScore(model_name, outcome) ==
    IF outcome.prediction = "ddos"
    THEN outcome.confidence * GetModelWeight(model_name)
    ELSE 0 - (100 - outcome.confidence) * GetModelWeight(model_name)

\* np.mean(prediction_scores), or 0 without scores
EnsembleScore(outcomes) ==
    IF Answered(outcomes) = {} THEN Ratio(0, 1)
    ELSE Ratio(SumOver([m \in ModelNames |-> PredictionScore(m, outcomes[m])],
                       Answered(outcomes)),
               10000 * Cardinality(Answered(outcomes)))

\* the flow-based heuristics, in tenths
FlowThreatScore(flow_features) ==
    (IF flow_features.packets_per_second > 1000 THEN 3 ELSE 0)
    + (IF flow_features.bytes_per_second > 1000000 THEN 3 ELSE 0)
    + (IF flow_features.std_packet_size > 500 THEN 2 ELSE 0)
    + (IF flow_features.unique_dst_ports > 10 THEN 2 ELSE 0)

\* final_score = (ensemble_score + flow_threat_score) / 2
FinalScore(outcomes, flow_features) ==
    LET e == EnsembleScore(outcomes)
    IN  Ratio(10 * e.num + FlowThreatScore(flow_features) * e.den, 20 * e.den)

\* consensus_ratio = ddos_count / total_models; the isolation forest's entry
\* counts as a model, and never as a ddos prediction
ConsensusRatio(outcomes, forest) ==
    LET ddos_count == Cardinality({m \in ModelNames : outcomes[m].prediction = "ddos"})
        total_models == Cardinality(Answered(outcomes))
                          + (IF forest = "none" THEN 0 ELSE 1)
    IN  IF total_models > 0 THEN Ratio(ddos_count, total_models) ELSE Ratio(0, 1)

EnhancedEnsembleDecision(outcomes, forest, flow_features) ==
    LET final_score == FinalScore(outcomes, flow_features)
        consensus_ratio == ConsensusRatio(outcomes, forest)
        highest == MaxRatio(final_score, consensus_ratio)
    IN  IF Greater(final_score, Ratio(7, 10)) \/ Greater(consensus_ratio, Ratio(6, 10))
        THEN [prediction |-> "ddos",
              confidence |-> MinRatio(Ratio(95, 100), highest),
              threat_level |-> "HIGH"]
        ELSE IF Greater(final_score, Ratio(4, 10))
                  \/ Greater(consensus_ratio, Ratio(3, 10))
        THEN [prediction |-> "suspicious", confidence |-> highest,
              threat_level |-> "MEDIUM"]
        ELSE [prediction |-> "normal", confidence |-> OneMinus(highest),
              threat_level |-> "LOW"]

CreateDefaultResponse ==
    [prediction |-> "unknown", confidence |-> Ratio(0, 1), threat_level |-> "UNKNOWN"]

\* detect_ddos: failure says whether preprocess_features returned None or
\* another step raised
DetectDdos(flow_features, outcomes, forest, failure) ==
    /\ detection' =
          [flow_features |-> flow_features, outcomes |-> outcomes,
           forest |-> forest, failure |-> failure,
           final_score |-> FinalScore(outcomes, flow_features),
           response |-> IF failure = "none"
                        THEN EnhancedEnsembleDecision(outcomes, forest, flow_features)
                        ELSE CreateDefaultResponse]
    /\ UNCHANGED <<now, outsideScorer>>

-----------------------------------------------------------------------------
(* The periodic tasks and the flags their loops test.                      *)
(*                                                                         *)
(* Each task is a loop "while <flag>: body; sleep".  The three flags are   *)
(* the only thing the loops of the framework look at to stop; the loop of  *)
(* NetworkSliceManager is "while True".  schedule_slice_restoration is a   *)
(* task of its own that looks at no flag; asyncio.run cancels it when      *)
(* start_autonomous_operation has returned.                                *)

FrameworkCoroutines ==
    {"continuous_flow_monitoring", "real_time_anomaly_detection",
     "autonomous_threat_mitigation", "network_slice_health_monitor",
     "self_healing_orchestrator", "adaptive_learning_engine"}

PeriodicTasks ==
    FrameworkCoroutines \cup {"flow_processor", "autonomous_slice_monitoring"}

\* the condition of the while of each loop
LoopCondition(task) ==
    CASE task \in {"real_time_anomaly_detection", "autonomous_threat_mitigation",
                   "adaptive_learning_engine"} -> flags.autonomous_mode
      [] task \in {"flow_processor", "continuous_flow_monitoring",
                   "network_slice_health_monitor"} -> flags.continuous_monitoring
      [] task = "self_healing_orchestrator" -> flags.healing_active
      [] OTHER -> TRUE

\* the end of a sleep: the loop tests its condition
TestLoopCondition(task) ==
    /\ tasks[task] = "sleeping"
    /\ tasks' = [tasks EXCEPT ![task] = IF LoopCondition(task)
                                        THEN "running" ELSE "halted"]
    /\ UNCHANGED <<now, flags, restoration, outsideLifecycle>>

\* the body of a loop, up to its sleep
LoopBody(task) ==
    /\ tasks[task] = "running"
    /\ tasks' = [tasks EXCEPT ![task] = "sleeping"]
    /\ UNCHANGED <<now, flags, restoration, outsideLifecycle>>

\* isolate_network_slice, awaited by the mitigation task, creates the
\* restoration task; may_restore says whether the slice's threat_level is
\* below 2 when the task looks at it
CreateRestoration(may_restore) ==
    /\ tasks["autonomous_threat_mitigation"] = "running"
    /\ restoration = "none"
    /\ restoration' = IF may_restore THEN "restores" ELSE "extends"
    /\ UNCHANGED <<now, flags, tasks, outsideLifecycle>>

\* schedule_slice_restoration after its sleep: it restores and ends, or it
\* creates the next restoration task
RestorationWakes ==
    /\ restoration # "none"
    /\ restoration' = IF restoration = "restores" THEN "none" ELSE "extends"
    /\ UNCHANGED <<now, flags, tasks, outsideLifecycle>>

\* start_autonomous_operation returns once its six tasks have ended, and
\* asyncio.run cancels what is left on the loop
OperationReturns ==
    /\ \A task \in FrameworkCoroutines : tasks[task] = "halted"
    /\ restoration # "none"
    /\ restoration' = "none"
    /\ UNCHANGED <<now, flags, tasks, outsideLifecycle>>

\* the shutdown signal: the three flags are cleared
ClearFlags ==
    /\ flags.autonomous_mode \/ flags.healing_active \/ flags.continuous_monitoring
    /\ flags' = [autonomous_mode |-> FALSE, healing_active |-> FALSE,
                 continuous_monitoring |-> FALSE]
    /\ UNCHANGED <<now, tasks, restoration, outsideLifecycle>>

-----------------------------------------------------------------------------

Init ==
    /\ now = 0
    /\ active_mitigations = [ip \in Addresses |-> NoRecord]
    /\ flow_rules = [r \in FlowRules |-> 0]
    /\ blocked_ips = {}
    /\ install_calls = [ip \in Addresses |-> 0]
    /\ remove_calls = [ip \in Addresses |-> 0]
    /\ verdicts = 0
    /\ me_last = [op |-> "init"]
    /\ active_rules = {}
    /\ blacklist = {}
    /\ rate_limits = [ip \in Addresses |-> 0]
    /\ iptables_rules = [ip \in Addresses |-> 0]
    /\ manager_calls = 0
    /\ slices = [s \in Slices |->
                    [current_status |-> "active", threat_level |-> Threat(0, 0),
                     isolation_time |-> NeverIsolated, isolated_ips |-> {},
                     rules_ok |-> TRUE, isolation_calls |-> 0,
                     restoration_calls |-> 0]]
    /\ restoration_checks = EmptyBag
    /\ monitor_wake = 0
    /\ slice_alerts = 0
    /\ slice_health = [s \in Slices |->
                          [status |-> "healthy", last_check |-> 0, threat_level |-> 0]]
    /\ alert_queue = <<>>
    /\ slice_restorations = EmptyBag
    /\ health_wake = 0
    /\ metrics = [anomalies_detected |-> 0, slices_healed |-> 0]
    /\ high_alerts = [s \in Slices |-> 0]
    /\ running = Idle
    /\ runnable = {}
    /\ transitions = {}
    /\ flow_queue_size = 0
    /\ alert_queue_size = 0
    /\ loop_blocked = FALSE
    /\ turn = 0
    /\ flows = [k \in FlowKeys |-> NoFlow]
    /\ created = 0
    /\ producers = [p \in Producers |-> IdleThread]
    /\ sweeper = IdleThread
    /\ ingested = [k \in FlowKeys |-> [packets |-> 0, bytes |-> 0]]
    /\ detection = NoDetection
    /\ flags = [autonomous_mode |-> TRUE, healing_active |-> TRUE,
                continuous_monitoring |-> TRUE]
    /\ tasks = [task \in PeriodicTasks |-> "running"]
    /\ restoration = "none"

NextEngine ==
    \/ \E ip \in Addresses, c \in Confidences, tl \in ThreatLevels,
          s \in SliceInputs, o \in Outcomes :
          ExecuteMitigation(ip, c, tl, s, o)
    \/ CleanupExpiredMitigations
    \/ AdvanceClock

SpecEngine == Init /\ [][NextEngine]_vars

NextManager ==
    \/ \E ip \in Addresses, sl \in SliceIds, c \in ManagerConfidences,
          o \in CommandOutcomes : HandleAttack(ip, sl, c, o)
    \/ \E r \in active_rules, o \in CommandOutcomes : RemoveMitigation(r, o)
    \/ CleanupExpiredRules
    \/ ManagerAdvanceClock

SpecManager == Init /\ [][NextManager]_vars

NextSlices ==
    \/ \E sl \in Slices, sev \in Severities, ip \in AlertSources,
          ok \in BOOLEAN, e \in ErrorSigns :
          HandleThreatInSlice(sl, sev, ip, ok, e)
    \/ MonitorIteration
    \/ \E sl \in Slices : RestorationCheck(sl)
    \/ SliceAdvanceClock

SpecSlices == Init /\ [][NextSlices]_vars

\* the slice manager under alerts of the default severity and of the
\* severity that reaches the isolation threshold at once
LevelSeverities == {1, 3}

NextSliceLevels ==
    \/ \E sl \in Slices, sev \in LevelSeverities, ip \in AlertSources,
          ok \in BOOLEAN, e \in ErrorSigns :
          HandleThreatInSlice(sl, sev, ip, ok, e)
    \/ MonitorIteration
    \/ \E sl \in Slices : RestorationCheck(sl)
    \/ SliceAdvanceClock

SpecSliceLevels == Init /\ [][NextSliceLevels]_vars

NextFramework ==
    \/ \E ip \in FlowSources, sl \in Slices, d \in Detections :
          DetectAnomaly(ip, sl, d)
    \/ \E outcome \in InstallOutcomes : ThreatMitigation(outcome)
    \/ HealthMonitorIteration
    \/ \E sl \in Slices : SliceRestoration(sl)
    \/ FrameworkAdvanceClock

SpecFramework == Init /\ [][NextFramework]_vars

NextLoop ==
    \/ \E task \in Coroutines : BecomeRunnable(task)
    \/ \E task \in Coroutines : Resume(task)
    \/ EnterTransition
    \/ InstallReturns
    \/ LeaveTransition
    \/ Suspend

SpecLoop == Init /\ [][NextLoop]_vars

NextQueues ==
    \/ \E batch \in FlowBatches : FlowProcessorPass(batch)
    \/ \E prediction \in Predictions : AnomalyDetectionPass(prediction)
    \/ ThreatMitigationPass

SpecQueues == Init /\ [][NextQueues]_vars

NextFlows ==
    \/ \E p \in Producers, k \in FlowKeys, size \in PacketSizes :
          ReceivePacket(p, k, size)
    \/ \E p \in Producers :
          \/ LookupFlow(p)
          \/ FactoryReturns(p)
          \/ LoadPackets(p)
          \/ StorePackets(p)
          \/ LoadBytes(p)
          \/ StoreBytes(p)
    \/ SweepScan
    \/ SweepDelete
    \/ FlowAdvanceClock

SpecFlows == Init /\ [][NextFlows]_vars

\* one flow is scored in a behaviour
NextScorer ==
    /\ detection = NoDetection
    /\ \E flow_features \in FlowFeatures, outcomes \in [ModelNames -> ModelOutcomes],
          forest \in ForestOutcomes, failure \in Failures :
           DetectDdos(flow_features, outcomes, forest, failure)

SpecScorer == Init /\ [][NextScorer]_vars

NextLifecycle ==
    \/ \E task \in PeriodicTasks : TestLoopCondition(task)
    \/ \E task \in PeriodicTasks : LoopBody(task)
    \/ \E may_restore \in BOOLEAN : CreateRestoration(may_restore)
    \/ RestorationWakes
    \/ OperationReturns
    \/ ClearFlags

SpecLifecycle == Init /\ [][NextLifecycle]_vars

\* every task that can take a step is scheduled again
FairSpecLifecycle ==
    /\ SpecLifecycle
    /\ \A task \in PeriodicTasks :
          WF_vars(TestLoopCondition(task)) /\ WF_vars(LoopBody(task))
    /\ WF_vars(RestorationWakes)
    /\ WF_vars(OperationReturns)

FairSpecEngine ==
    /\ SpecEngine
    /\ WF_vars(CleanupExpiredMitigations)
    /\ WF_vars(AdvanceClock)

-----------------------------------------------------------------------------
(* Properties.                                                             *)

Range(f) == {f[i] : i \in DOMAIN f}

\* the copies of rules the actuator holds against an address
RulesInstalledFor(rules, ip) ==
    rules[RuleFor("BLOCK", ip)] + rules[RuleFor("RATE_LIMIT", ip)]
        + rules[RuleFor("REDIRECT_HONEYPOT", ip)]

\* C1: at most one active mitigation record exists per source address, in
\* every reachable state of the manager.
C1_AtMostOneActiveRecordPerAddress ==
    \A ip \in Addresses : Cardinality({r \in active_rules : r.ip = ip}) <= 1

\* C2: when the actuator call for the requested action fails (returns False
\* or raises), execute_mitigation creates no record for the source address:
\* the address's entry of active_mitigations is what it was before the call.
C2_NoRecordOnActuatorFailure ==
    [][\A ip \in Addresses, c \in Confidences, tl \in ThreatLevels,
          s \in SliceInputs, o \in Outcomes :
          (/\ ExecuteMitigation(ip, c, tl, s, o)
           /\ MitigationStrategy(c, tl) # "NONE"
           /\ o # "ok")
          => active_mitigations'[ip] = active_mitigations[ip]]_vars

\* C3: a qualifying verdict for an address that has an active record (one
\* get_active_mitigations reports) with the same action type makes no further
\* actuator install call.
C3_RenewalMakesNoInstallCall ==
    [][\A ip \in Addresses, c \in Confidences, tl \in ThreatLevels,
          s \in SliceInputs, o \in Outcomes :
          (/\ ExecuteMitigation(ip, c, tl, s, o)
           /\ MitigationStrategy(c, tl) # "NONE"
           /\ ip \in GetActiveMitigations
           /\ ActionTag(MitigationStrategy(c, tl))
                  \in Range(active_mitigations[ip].actions))
          => install_calls'[ip] = install_calls[ip]]_vars

C5_ExpireDueRemovesRuleAndRecord ==
    [][CleanupExpiredMitigations =>
          \A ip \in Addresses :
              LET r == active_mitigations[ip] IN
              r # NoRecord =>
                  IF now >= r.timestamp + MitigationDuration
                  THEN /\ active_mitigations'[ip] = NoRecord
                       /\ RulesInstalledFor(flow_rules', ip) = 0
                  ELSE /\ active_mitigations'[ip] = r
                       /\ RulesInstalledFor(flow_rules', ip)
                              = RulesInstalledFor(flow_rules, ip)]_vars

\* C6: the record of an address whose rule the actuator holds is deleted only
\* in a step that asked the actuator to remove the rule.
C6_RecordDeletedOnlyAfterRemove ==
    [][\A ip \in Addresses :
          (/\ active_mitigations[ip] # NoRecord
           /\ active_mitigations'[ip] = NoRecord
           /\ RulesInstalledFor(flow_rules, ip) > 0)
          => remove_calls'[ip] > remove_calls[ip]]_vars

\* C7: every rule installed against an address is eventually removed from the
\* actuator, when the sweep and the clock are scheduled fairly.
C7_AppliedMitigationEventuallyDestroyed ==
    \A ip \in Addresses :
        (RulesInstalledFor(flow_rules, ip) > 0)
            ~> (RulesInstalledFor(flow_rules, ip) = 0)

\* the restoration checks pending for a slice
PendingChecks(bag, slice_id) ==
    BagCardinality([x \in {y \in BagToSet(bag) : y[1] = slice_id} |-> bag[x]])

\* C8: no slice stays isolated longer than the maximum isolation time: a
\* slice whose status is isolated was isolated at most 1800 seconds ago.
C8_NoSliceIsolatedBeyondCeiling ==
    \A s \in Slices :
        slices[s].current_status = "isolated"
            => now - slices[s].isolation_time <= 1800

\* C9: when the four alerts the framework has seen were HIGH alerts for
\* URLLC that arrived together, and none came after them, then once the
\* restoration check made 300 seconds after the isolation has run the slice
\* is healthy again.
C9_IsolatedSliceHealthyAfterRestorationDelay ==
    ( /\ high_alerts["URLLC"] = 4
      /\ metrics.anomalies_detected = 4
      /\ alert_queue = <<>>
      /\ slice_health["URLLC"].last_check = 0
      /\ now > 300 )
        => slice_health["URLLC"].status = "healthy"

\* C10: isolation is idempotent: an alert for a slice that is isolated
\* already makes no further install of isolation rules and schedules no
\* additional restoration check for it.
C10_IsolationIdempotent ==
    [][\A s \in Slices :
          ( /\ slice_alerts' # slice_alerts
            /\ slices[s].current_status = "isolated"
            /\ slices'[s].current_status = "isolated" )
              => /\ slices'[s].isolation_calls = slices[s].isolation_calls
                 /\ PendingChecks(restoration_checks', s)
                       = PendingChecks(restoration_checks, s)]_vars

\* C11: the periodic tick leaves an isolated slice alone: an iteration of
\* the monitoring loop that does not restore an isolated slice changes
\* neither its threat level nor its status.
C11_TickLeavesIsolatedSliceUnchanged ==
    [][\A s \in Slices :
          ( /\ monitor_wake' # monitor_wake
            /\ slices[s].current_status = "isolated"
            /\ slices'[s].restoration_calls = slices[s].restoration_calls )
              => /\ slices'[s].threat_level = slices[s].threat_level
                 /\ slices'[s].current_status = "isolated"]_vars

\* a scheduled restoration check of the slice runs in this step
RestorationCheckRuns(s) ==
    CopiesIn(<<s, now>>, restoration_checks')
        < CopiesIn(<<s, now>>, restoration_checks)

\* C12: a scheduled restoration check on an isolated slice restores it
\* (status active, threat level 0, the actuator called) when its threat
\* level is below 2; otherwise, the ceiling not being reached, the slice
\* stays isolated and exactly one further check is scheduled.
C12_RestorationCheckDecides ==
    [][\A s \in Slices :
          ( /\ RestorationCheckRuns(s)
            /\ slices[s].current_status = "isolated"
            /\ now - slices[s].isolation_time <= 1800 )
              => IF ThreatBelow(slices[s].threat_level, 20)
                 THEN /\ slices'[s].current_status = "active"
                      /\ slices'[s].threat_level = Threat(0, 0)
                      /\ slices'[s].restoration_calls
                            = slices[s].restoration_calls + 1
                 ELSE /\ slices'[s].current_status = "isolated"
                      /\ PendingChecks(restoration_checks', s)
                            = PendingChecks(restoration_checks, s)]_vars

\* the slice a coroutine works on, for those that work on one
SliceOf(task) == IF Len(task) = 2 THEN {task[2]} ELSE {}

\* C13: no two isolate or restore transitions on the same slice are in
\* progress at the same time, and no handler for a slice waits for the
\* event loop while a transition on another slice is in progress.
C13_TransitionsSerializedPerSliceOnly ==
    /\ \A x \in transitions, y \in transitions : x[2] = y[2] => x = y
    /\ \A x \in transitions, task \in runnable :
          \A s \in SliceOf(task) : s = x[2]

\* C14: the queues never hold more than their capacity, and a full queue
\* never stops a producer: the detection task is never stuck inside a put
\* on the full alert queue, which would stop the event loop and with it the
\* detection and the mitigation tasks.
C14_FullQueueNeverBlocksProducer ==
    /\ flow_queue_size <= 10000
    /\ alert_queue_size <= 1000
    /\ ~loop_blocked


\* C15: once every capturing thread has finished its packets, the features of
\* a flow report as total_packets the number of packets ingested for its key
\* and as total_bytes the sum of their sizes, with several threads capturing
\* (before any flow can have gone idle, so that no sweep has removed one).
C15_CountersMatchIngestedPackets ==
    \A k \in FlowKeys :
        ( /\ \A p \in Producers : producers[p] = IdleThread
          /\ now <= IdleTimeout
          /\ ingested[k].packets > 0 )
            => /\ flows[k] # NoFlow
               /\ ExtractFlowFeatures(flows[k]) =
                      [total_packets |-> ingested[k].packets,
                       total_bytes |-> ingested[k].bytes]

\* C16: the sweep removes no flow that was seen within the idle timeout of
\* the moment of removal, whatever the capturing threads do meanwhile.
C16_SweepKeepsRecentFlows ==
    [][\A k \in FlowKeys :
          (sweeper.at = "delete" /\ sweeper' = IdleThread
             /\ flows[k] # NoFlow /\ flows'[k] = NoFlow
             /\ flows[k].last_seen # None)
            => now - flows[k].last_seen > IdleTimeout]_vars

\* C17: every call of detect_ddos returns a response whose confidence is
\* between 0 and 1, whose prediction is normal, suspicious or ddos (the
\* attack label) and whose threat_level is LOW, MEDIUM or HIGH, whatever the
\* features and the models' answers, and also when a step of the call fails.
C17_ResponseAlwaysWellFormed ==
    detection # NoDetection =>
        /\ detection.response.prediction \in {"normal", "suspicious", "ddos"}
        /\ detection.response.threat_level \in {"LOW", "MEDIUM", "HIGH"}
        /\ ~Greater(Ratio(0, 1), detection.response.confidence)
        /\ ~Greater(detection.response.confidence, Ratio(1, 1))

\* C18: the verdict of a call that did not fail is decided by the combined
\* score alone: above 0.7 ddos/HIGH, else above 0.4 suspicious/MEDIUM, else
\* normal/LOW, whatever the models voted.
C18_VerdictFollowsCombinedScore ==
    (detection # NoDetection /\ detection.failure = "none") =>
        LET score == detection.final_score
            verdict == <<detection.response.prediction, detection.response.threat_level>>
        IN  verdict = IF Greater(score, Ratio(7, 10)) THEN <<"ddos", "HIGH">>
                      ELSE IF Greater(score, Ratio(4, 10)) THEN <<"suspicious", "MEDIUM">>
                      ELSE <<"normal", "LOW">>

\* the flood of the engine's test
FloodVector ==
    [packets_per_second |-> 1000, bytes_per_second |-> 1500000,
     std_packet_size |-> 0, unique_dst_ports |-> 50]

\* C19: the flood vector is scored ddos/HIGH with a confidence of at least
\* 0.9, and the mitigation engine's decision for that verdict is BLOCK.
C19_FloodIsBlocked ==
    ( /\ detection # NoDetection
      /\ detection.failure = "none"
      /\ detection.flow_features = FloodVector )
        => /\ detection.response.prediction = "ddos"
           /\ detection.response.threat_level = "HIGH"
           /\ Hundredths(detection.response.confidence) >= 90
           /\ MitigationStrategy(Hundredths(detection.response.confidence),
                                 detection.response.threat_level) = "BLOCK"

\* C20: every execute_mitigation call for a verdict whose threat_level is
\* HIGH asks for the isolation of the flow's slice and records it among its
\* actions, whichever per-source action the ladder chose (or none) and
\* whether its install succeeded, failed or raised.
C20_HighVerdictIsolatesSlice ==
    [][(verdicts' = verdicts + 1 /\ me_last'.threat_level = "HIGH")
          => "SLICE_ISOLATED" \in Range(active_mitigations'[me_last'.src_ip].actions)]_vars

\* a HIGH verdict whose per-source action did not succeed, with the slice
\* isolation recorded
C20_Witness ==
    /\ me_last.op = "execute_mitigation"
    /\ me_last.threat_level = "HIGH"
    /\ ~me_last.success
    /\ active_mitigations[me_last.src_ip] # NoRecord
    /\ active_mitigations[me_last.src_ip].actions = <<"SLICE_ISOLATED">>

\* C21: every alert (a verdict that is not normal) the mitigation task takes
\* from the queue raises the threat_level of the flow's slice by one, whether
\* or not a mitigation was applied for it.
C21_EveryAlertRaisesSliceThreat ==
    [][(alert_queue # <<>> /\ alert_queue' = Tail(alert_queue))
          => LET sl == Head(alert_queue).network_slice
             IN  slice_health'[sl].threat_level = slice_health[sl].threat_level + 1]_vars

\* C22: a countermeasure is recorded as in effect only after the actuator
\* reported success for its install: an address enters the controller's
\* blocked set only in a step in which its drop rule was installed.
C22_BlockedOnlyAfterSuccessfulInstall ==
    [][\A ip \in Addresses :
          (ip \notin blocked_ips /\ ip \in blocked_ips')
            => flow_rules'[RuleFor("BLOCK", ip)] = flow_rules[RuleFor("BLOCK", ip)] + 1]_vars

\* C23: after every monitoring tick on a slice that was not isolated, the
\* status of the slice agrees with its threat level: critical (or isolated
\* by that tick) above 5, degraded above 2 and up to 5, healthy (for the
\* slice manager: active) at 2 or below.
C23_StatusAgreesWithThreatAfterTick ==
    [][\A s \in Slices :
          (monitor_wake' # monitor_wake /\ slices[s].current_status # "isolated")
            => slices'[s].current_status \in
                 (IF ThreatAtLeast(slices'[s].threat_level, 51)
                  THEN {"critical", "isolated"}
                  ELSE IF ThreatAtLeast(slices'[s].threat_level, 21)
                  THEN {"degraded"}
                  ELSE {"active"})]_vars

\* C24: when a verdict for an address that has an active record and one rule
\* at the actuator is mitigated with an action of another type, the old
\* rule is removed and the new one installed: after it exactly one rule and
\* one record exist for the address.
C24_EscalationReplacesRule ==
    [][\A ip \in Addresses :
          ( /\ verdicts' = verdicts + 1
            /\ me_last'.src_ip = ip
            /\ me_last'.success
            /\ active_mitigations[ip] # NoRecord
            /\ RulesInstalledFor(flow_rules, ip) = 1
            /\ \E st \in me_last'.attempted :
                  ActionTag(st) \notin Range(active_mitigations[ip].actions) )
            => /\ RulesInstalledFor(flow_rules', ip) = 1
               /\ active_mitigations'[ip] # NoRecord]_vars

\* C25: once the shutdown signal is given (the flags are cleared), every
\* periodic task eventually halts and no restoration check stays pending.
C25_ShutdownHaltsEveryTask ==
    (~flags.autonomous_mode /\ ~flags.healing_active /\ ~flags.continuous_monitoring)
        ~> ((\A task \in PeriodicTasks : tasks[task] = "halted")
              /\ restoration = "none")

\* C26: the threat level of a slice is never negative, whatever the order of
\* alerts, monitoring ticks and restorations.
C26_ThreatLevelNeverNegative ==
    \A s \in Slices :
        /\ slices[s].threat_level.t >= 0
        /\ slices[s].threat_level.t = 0 => slices[s].threat_level.e >= 0

\* a slice whose level was raised by an alert and has decayed to zero, with
\* the monitoring loop still ticking on it
C26_Witness ==
    \E s \in Slices :
        /\ slices[s].isolated_ips # {}
        /\ slices[s].current_status = "active"
        /\ slices[s].restoration_calls = 0
        /\ slices[s].threat_level.t = 0
        /\ now >= 200

\* C27: a restoration (rules removed, threat level reset to 0, isolated
\* sources cleared) is only ever performed on a slice whose status is
\* isolated: no scheduled check restores or resets an active slice.
C27_RestorationOnlyOfIsolatedSlice ==
    [][\A s \in Slices :
          slices'[s].restoration_calls > slices[s].restoration_calls
              => slices[s].current_status = "isolated"]_vars

\* C28: a scheduled check restores a slice no earlier than the restoration
\* delay after the slice's most recent transition to isolated: a check
\* scheduled by an earlier isolation never ends a later isolation early.
C28_CheckRestoresAfterDelay ==
    [][\A s \in Slices :
          ( /\ RestorationCheckRuns(s)
            /\ slices[s].current_status = "isolated"
            /\ slices'[s].current_status = "active" )
              => now - slices[s].isolation_time >= RestorationDelay]_vars

\* C29: a verdict that matches no rung of the ladder (confidence below 0.5
\* and a threat level that is not HIGH) causes no actuator call and leaves
\* the active mitigation records as they were: no record is created or
\* overwritten.
C29_NoRungLeavesRecordsUnchanged ==
    [][( /\ verdicts' = verdicts + 1
         /\ me_last'.confidence < HoneypotThreshold
         /\ me_last'.threat_level # "HIGH" )
            => /\ install_calls' = install_calls
               /\ flow_rules' = flow_rules
               /\ active_mitigations' = active_mitigations]_vars

\* C30: in the mitigation manager, after any sequence of block_ip,
\* remove_mitigation and cleanup_expired_rules, each of which may succeed or
\* fail, an address is in the blacklist exactly when at least one active
\* block rule for it exists.
C30_BlacklistMatchesBlockRules ==
    \A ip \in Addresses :
        ip \in blacklist
            <=> \E r \in active_rules : r.type = "block" /\ r.ip = ip

\* C31: expiry is monotonic in time: once the age of a mitigation record
\* has reached the mitigation duration, get_active_mitigations does not
\* report it as active and cleanup_expired_mitigations selects it for
\* removal, however much later the call is made, more than a day included.
C31_ExpiredRecordStaysExpired ==
    \A ip \in Addresses :
        ( /\ active_mitigations[ip] # NoRecord
          /\ now - active_mitigations[ip].timestamp >= MitigationDuration )
            => /\ ip \notin GetActiveMitigations
               /\ ip \in ExpiredIps

=========================================================================
